---- MODULE Spec2Model ----
(***************************************************************************)
(* Model of leihuang23/js-utils: the JobQueue scheduler                    *)
(* (src/src/lib/job-queue.wip.ts) on top of PriorityQueue                  *)
(* (src/src/lib/priority-queue.ts).                                        *)
(*                                                                         *)
(* JavaScript runs one task to completion.  The variable stack holds the   *)
(* frames of the methods that are executing, innermost last.  A frame     *)
(* is on the stack while its method has called out: to emit, to a         *)
(* listener, to a job body, to another method.  When the stack is empty   *)
(* nothing is executing and the next task may begin: a call from outside, *)
(* a tick of the interval timer, a timeout, or the settling of a job's    *)
(* promise.  While the innermost frame is a callback (a listener or the   *)
(* synchronous part of a job body) user code is running and may call the  *)
(* public methods re-entrantly.                                           *)
(***************************************************************************)
EXTENDS Integers, Sequences, FiniteSets, TLC

\* ------------------------------------------------------------ bounds
MaxAdds == 2         \* add() calls in one behaviour
MaxPriority == 1     \* priorities are 0..MaxPriority
MaxConcurrency == 2  \* options.concurrency ranges over 1..MaxConcurrency
MaxCap == 1          \* options.intervalCap ranges over 0..MaxCap (0: not set)
MaxListeners == 2    \* listener registrations alive at one time
MaxDepth == 1        \* nesting of callbacks that still make calls
MaxCalls == 1        \* calls one callback makes before it returns
MaxSignalJobs == 1   \* tracked jobs added with a signal of the caller
MaxEnqueues == 4     \* enqueue() calls on the PriorityQueue used by itself
MaxTasks == 4        \* limit(tasks, n): tasks.length ranges over 0..MaxTasks
MaxLimit == 3        \* limit(tasks, n): n ranges over 1..MaxLimit
MaxSubmits == 4      \* makeLimit(c): functions handed to the executor
MaxMakeLimit == 2    \* makeLimit(c): c ranges over 1..MaxMakeLimit
MaxMemoCalls == 3    \* memoPromise: calls of the memoized function
MaxMemoSize == 2     \* memoPromise: options.maxSize ranges over -1..MaxMemoSize
MaxExpiresIn == 1    \* memoPromise: options.expiresIn ranges over 0..MaxExpiresIn
MaxNow == 2          \* memoPromise: Date.now() ranges over 1..MaxNow
MaxOnces == 2        \* once() calls in one behaviour

NoId == 0            \* "no id": emit(NEXT) without data, jobMap fields unset

\* JobQueueEvent
Events == {"empty", "idle", "error", "completed", "added", "next", "paused", "resumed"}
\* events listeners are registered for in this model
ListenEvents == {"next", "paused"}

Priorities == 0..MaxPriority

VARIABLES
  cfg,            \* constructor options: concurrency, autoStart, intervalCap, interval, timeout
  queue,          \* this.queue: the PriorityQueue's backing sequence of {priority, value}
  running,        \* this.running
  isPaused,       \* this.isPaused
  isDestroyed,    \* this.isDestroyed
  intervalCount,  \* this.intervalCount
  intervalId,     \* this.intervalId: TRUE while the setInterval timer is armed
  jobMap,         \* this.jobMap: id -> {priority, controller, timeoutId}
  mapKeys,        \* the keys of this.eventListeners (the Map)
  listenerArrays, \* the listener array created for each event
  runs,           \* the runJob invocations not yet through finally, by job object
  stack,          \* the frames of the executing methods, innermost last
  nextUid,        \* add() calls so far: the identity of the next job object
  idCount,        \* distinct ids handed to add() so far
  windowStarts,   \* jobs started since the latest tick of the interval timer, -1 before the first
  abortedPending, \* the ids abort() was called with while a job of that id was pending
  startOrder,     \* scenario: the job objects in the order runJob started them
  idleEmitted,    \* scenario: the number of IDLE emissions so far
  heard,          \* listeners: those registered when the latest emission began, those it invoked
  pq,             \* a PriorityQueue used by itself: its backing sequence
  pqSer,          \* for each entry of pq, the number of the enqueue() that made it
  pqOut,          \* the entries dequeue() returned since the latest enqueue()
  pqPeeked,       \* what the latest peek() returned
  pqNext,         \* enqueue() calls so far
  lim,            \* one call of limit(tasks, n): its arguments, index, active, the tasks
  ml,             \* one executor made by makeLimit(c): running, queue, the functions
  memo            \* one function made by memoPromise: its options, cache, the promises

vars == <<cfg, queue, running, isPaused, isDestroyed, intervalCount, intervalId,
          jobMap, mapKeys, listenerArrays, runs, stack, nextUid, idCount,
          windowStarts, abortedPending, startOrder, idleEmitted, heard,
          pq, pqSer, pqOut, pqPeeked, pqNext, lim, ml, memo>>

\* the program's own state, without the stack and the history variables
progVars == <<queue, running, isPaused, isDestroyed, intervalCount, intervalId,
              jobMap, mapKeys, listenerArrays, runs>>
histVars == <<nextUid, idCount, windowStarts, abortedPending>>
\* the history variables only the scenario and the listener specifications record
obsVars == <<startOrder, idleEmitted, heard>>
\* the PriorityQueue used by itself
pqVars == <<pq, pqSer, pqOut, pqPeeked, pqNext>>
\* the variables of the utilities, which the JobQueue leaves alone
utilVars == <<pqVars, lim, ml, memo>>

\* ------------------------------------------------------------ PriorityQueue

\* PriorityQueue.enqueue / Queue.enqueue: append {priority, value}
PQEnqueue(q, value, priority) == Append(q, [priority |-> priority, value |-> value])

\* PriorityQueue.dequeue, lines 20-32: one pass over the items, keeping the
\* index of the first item whose priority is strictly greater than every
\* earlier one (best = 0 stands for highestPriority = -Infinity).
\* the scan with >= in place of >: among equal priorities the last one wins
RECURSIVE PQScanLast(_, _, _)
PQScanLast(q, i, best) ==
  IF i > Len(q) THEN best
  ELSE PQScanLast(q, i + 1, IF best = 0 \/ q[i].priority >= q[best].priority THEN i ELSE best)

\* the scan with < in place of >: the lowest priority wins
RECURSIVE PQScanLowest(_, _, _)
PQScanLowest(q, i, best) ==
  IF i > Len(q) THEN best
  ELSE PQScanLowest(q, i + 1, IF best = 0 \/ q[i].priority < q[best].priority THEN i ELSE best)

RECURSIVE PQScan(_, _, _)
PQScan(q, i, best) ==
  IF i > Len(q) THEN best
  ELSE PQScan(q, i + 1, IF best = 0 \/ q[i].priority > q[best].priority THEN i ELSE best)

\* the selection that takes the entry at the head, whatever its priority
PQHead(q) == q[1]

PQHighest(q) == q[PQScan(q, 1, 0)]

\* PriorityQueue.dequeue, lines 34-43: keep every item that differs from the
\* selected one in priority or in value (object identity)
PQRebuild(q, h) ==
  LET Keep(item) == item.priority # h.priority \/ item.value # h.value
  IN SelectSeq(q, Keep)

\* PriorityQueue.dequeue on a non-empty queue: the value returned and the queue left
PQDequeue(q) ==
  LET h == PQHighest(q)
  IN [value |-> h.value, priority |-> h.priority, queue |-> PQRebuild(q, h)]

\* PriorityQueue.toArray: the items in order, the queue restored
\* Queue: enqueue and dequeue, src/lib/queue.ts
QEnqueue(q, item) == Append(q, item)
QDequeue(q) == [value |-> Head(q), queue |-> Tail(q)]

\* while (!from.isEmpty()) to.enqueue(from.dequeue())
RECURSIVE QMoveAll(_, _)
QMoveAll(from, to) ==
  IF from = <<>> THEN to
  ELSE QMoveAll(QDequeue(from).queue, QEnqueue(to, QDequeue(from).value))

\* null, returned by dequeue() and peek() on an empty queue
NullValue == "null"

\* peek that returns the value at the head of the backing queue
PQPeekFirst(q) ==
  [value |-> IF q = <<>> THEN NullValue ELSE Head(q).value, queue |-> q]

\* peek(): the value of the highest priority, the queue moved to tempQueue and back
PQPeek(q) ==
  IF q = <<>> THEN [value |-> NullValue, queue |-> q]
  ELSE [value |-> PQHighest(q).value, queue |-> QMoveAll(QMoveAll(q, <<>>), <<>>)]

PQToArray(q) == [i \in 1..Len(q) |-> [value |-> q[i].value, priority |-> q[i].priority]]

\* ------------------------------------------------------------ frames

Top == stack[Len(stack)]
Rest == SubSeq(stack, 1, Len(stack) - 1)
Idle == stack = <<>>
InCallback == stack # <<>> /\ Top.k = "callback"
Depth == Cardinality({i \in 1..Len(stack) : stack[i].k = "callback"})

\* a public method may be called by a new task, or by the running callback
CanCall == Idle \/ (InCallback /\ Depth <= MaxDepth /\ Top.calls < MaxCalls)

\* the stack a public method called now runs on
Base == IF Idle THEN <<>> ELSE Append(Rest, [Top EXCEPT !.calls = @ + 1])

FPnj(pc) == [k |-> "processNextJobs", pc |-> pc]
FRunJob(uid, pc) == [k |-> "runJob", pc |-> pc, uid |-> uid]
FCallback(who, of) == [k |-> "callback", who |-> who, of |-> of, calls |-> 0]

\* emit, lines 103-106: nothing when destroyed, else the loop over the listeners;
\* n records how many listeners the event had when the emission began
Emit(destroyed, ev, data) ==
  IF destroyed THEN <<>>
  ELSE <<[k |-> "emit", ev |-> ev, data |-> data, i |-> 1, n |-> Len(listenerArrays[ev])]>>

\* Map.set / Map.delete on a function whose domain is the set of keys
MapSet(m, key, val) == [x \in DOMAIN m \cup {key} |-> IF x = key THEN val ELSE m[x]]
MapDelete(m, key) == [x \in DOMAIN m \ {key} |-> m[x]]

\* options.signal of a job: 0 the signal add() makes itself (line 126), 1 a
\* signal of the caller, 2 a signal of the caller that is aborted
Signals == {0, 1, 2}
\* options.signal.aborted read as false whatever the signal
IsAbortedNever(sig) == FALSE

IsAborted(sig) == sig = 2

\* ------------------------------------------------------------ constructor

\* the options the queues of this model are constructed with, lines 62-68
Configs ==
  {c \in [concurrency : 1..MaxConcurrency, autoStart : BOOLEAN,
          intervalCap : 0..MaxCap, interval : BOOLEAN, timeout : BOOLEAN] :
     \* autoStart off: with and without the rate window
     /\ ~c.autoStart => (c.concurrency = MaxConcurrency /\ ~c.timeout
                         /\ c.interval = (c.intervalCap # 0))
     \* one job at a time: with a job timeout, and an interval without a cap
     /\ (c.timeout \/ c.concurrency < MaxConcurrency) =>
           (c.concurrency = 1 /\ c.intervalCap = 0 /\ c.timeout /\ c.interval)
     \* an interval without a cap only there
     /\ (c.interval /\ c.intervalCap = 0) => c.timeout}

\* constructor, lines 47-73
InitState(c) ==
  /\ cfg = c
  /\ queue = <<>>
  /\ running = 0
  /\ isPaused = FALSE
  /\ isDestroyed = FALSE
  /\ intervalCount = 0
  /\ intervalId = (c.interval /\ c.intervalCap # 0)
  /\ jobMap = <<>>
  /\ mapKeys = {}
  /\ listenerArrays = [e \in Events |-> <<>>]
  /\ runs = <<>>
  /\ stack = <<>>
  /\ nextUid = 0
  /\ idCount = 0
  /\ windowStarts = -1
  /\ abortedPending = {}
  /\ startOrder = <<>>
  /\ idleEmitted = 0
  /\ heard = [at |-> <<>>, invoked |-> <<>>, onces |-> 0,
              onceCalls |-> [k \in 1..MaxOnces |-> 0]]

\* new PriorityQueue(), src/lib/priority-queue.ts lines 7-9
PQNew ==
  /\ pq = <<>>
  /\ pqSer = <<>>
  /\ pqOut = <<>>
  /\ pqPeeked = NullValue
  /\ pqNext = 0

\* limit(tasks, n) before its executor runs, lines 16-18: tasks.length and n
\* given, index and active 0, no task invoked
LimStart(tasks, n) ==
  [tasks |-> tasks, n |-> n, called |-> FALSE, index |-> 0, active |-> 0,
   status |-> [t \in 1..tasks |-> "new"], invoked |-> [t \in 1..tasks |-> 0],
   resolved |-> 0]

\* makeLimit(concurrency), lines 48-49: running 0, the queue empty; no
\* function handed in yet
MlNew(concurrency) ==
  [concurrency |-> concurrency, running |-> 0, queue |-> <<>>,
   status |-> <<>>, throws |-> <<>>, started |-> <<>>]

\* memoPromise(asyncFn, options), src/unnamed/part_001 lines 9-17: the options
\* and an empty cache; no call made yet, the clock at its first reading
MemoNew(maxSize, expiresIn) ==
  [maxSize |-> maxSize, expiresIn |-> expiresIn, cache |-> <<>>, now |-> 1,
   calls |-> 0, key |-> "", ret |-> 0,
   status |-> <<>>, pkey |-> <<>>, handler |-> <<>>]

\* the utilities, not in use
UtilNew ==
  /\ PQNew
  /\ lim = LimStart(0, 1)
  /\ ml = MlNew(1)
  /\ memo = MemoNew(1, 0)

Init == \E c \in Configs : InitState(c) /\ UtilNew

\* ------------------------------------------------------------ add

\* add returns '' when destroyed, else the id, lines 118-120 and 141
AddRet(id) == IF isDestroyed THEN "" ELSE "id"

\* the tracked jobs that hold a signal of the caller
SignalJobs ==
  {queue[i].value.uid : i \in {j \in 1..Len(queue) : queue[j].value.sig # 0}}
  \cup {u \in DOMAIN runs : runs[u].sig # 0}

\* add(job, {priority, signal, id}), lines 117-135
Add(id, priority, sig) ==
  /\ CanCall
  /\ IF isDestroyed
     THEN /\ stack' = Base
          /\ UNCHANGED <<queue, jobMap, nextUid, idCount>>
     ELSE /\ jobMap' = MapSet(jobMap, id, [priority |-> priority, controller |-> NoId,
                                           timeoutId |-> NoId])
          /\ queue' = PQEnqueue(queue, [uid |-> nextUid + 1, id |-> id, sig |-> sig], priority)
          /\ stack' = Base \o <<[k |-> "add"]>> \o Emit(isDestroyed, "added", id)
          /\ nextUid' = nextUid + 1
          /\ idCount' = IF id > idCount THEN id ELSE idCount
  /\ UNCHANGED <<cfg, running, isPaused, isDestroyed, intervalCount, intervalId,
                 mapKeys, listenerArrays, runs, windowStarts, abortedPending>>

\* add, lines 137-141, after emit(ADDED) has returned
AddAfterAdded ==
  /\ stack # <<>> /\ Top.k = "add"
  /\ stack' = IF cfg.autoStart /\ ~isPaused THEN Append(Rest, FPnj("enter")) ELSE Rest
  /\ UNCHANGED <<cfg, progVars, histVars>>

\* ------------------------------------------------------------ processNextJobs

\* the while condition without its test of running against concurrency
LoopCondNoConcurrency ==
  /\ ~isDestroyed
  /\ ~isPaused
  /\ queue # <<>>
  /\ (cfg.intervalCap = 0 \/ intervalCount < cfg.intervalCap)

\* the while condition without its test of isPaused
LoopCondNoPause ==
  /\ ~isDestroyed
  /\ running < cfg.concurrency
  /\ queue # <<>>
  /\ (cfg.intervalCap = 0 \/ intervalCount < cfg.intervalCap)

\* the while condition, lines 156-162
LoopCond ==
  /\ ~isDestroyed
  /\ ~isPaused
  /\ running < cfg.concurrency
  /\ queue # <<>>
  /\ (cfg.intervalCap = 0 \/ intervalCount < cfg.intervalCap)

\* the early returns, lines 148-154
EntryReturn ==
  \/ isDestroyed \/ isPaused
  \/ (cfg.intervalCap # 0 /\ intervalCount >= cfg.intervalCap)

\* lines 184-186: after the loop, EMPTY when the queue is empty
PnjTail ==
  IF ~isDestroyed /\ queue = <<>>
  THEN <<FPnj("afterEmpty")>> \o Emit(isDestroyed, "empty", NoId)
  ELSE <<>>

\* runJob, lines 207-210 and 222-232: the controller and the timer handle are
\* stored only when the id is still in the map
RunJobMap(m, id, uid) ==
  LET m1 == IF id \in DOMAIN m THEN MapSet(m, id, [m[id] EXCEPT !.controller = uid]) ELSE m
  IN IF cfg.timeout /\ id \in DOMAIN m1
     THEN MapSet(m1, id, [m1[id] EXCEPT !.timeoutId = uid]) ELSE m1

\* a rate window is running: the constructor armed the timer, line 70
HasWindow == cfg.interval /\ cfg.intervalCap # 0

\* runJob, lines 198-240, called with the dequeued value: up to emit(NEXT, {id})
RunJobEnter(value) ==
  /\ running' = running + 1
  /\ jobMap' = RunJobMap(jobMap, value.id, value.uid)
  /\ runs' = MapSet(runs, value.uid,
                    [id |-> value.id, sig |-> value.sig, aborted |-> IsAborted(value.sig),
                     timer |-> cfg.timeout, phase |-> "starting"])
  /\ stack' = Rest \o <<FPnj("afterRunJob"), FRunJob(value.uid, "afterNext")>>
                   \o Emit(isDestroyed, "next", value.id)
  /\ windowStarts' = IF windowStarts >= 0 THEN windowStarts + 1 ELSE windowStarts

\* processNextJobs, lines 147-174: entry checks, then one turn of the loop up
\* to its call of emit(NEXT) or runJob, or the code after the loop
ProcessNextJobs ==
  /\ stack # <<>> /\ Top.k = "processNextJobs" /\ Top.pc \in {"enter", "loop", "tail"}
  /\ IF Top.pc = "enter" /\ EntryReturn
     THEN /\ stack' = Rest
          /\ UNCHANGED <<queue, running, jobMap, runs, windowStarts>>
     ELSE IF Top.pc # "tail" /\ LoopCond
     THEN LET item == PQDequeue(queue) IN
          /\ queue' = item.queue
          /\ IF IsAborted(item.value.sig)
             THEN /\ stack' = Rest \o <<FPnj("loop")>> \o Emit(isDestroyed, "next", NoId)
                  /\ UNCHANGED <<running, jobMap, runs, windowStarts>>
             ELSE RunJobEnter(item.value)
     ELSE /\ stack' = Rest \o PnjTail
          /\ UNCHANGED <<queue, running, jobMap, runs, windowStarts>>
  /\ UNCHANGED <<cfg, isPaused, isDestroyed, intervalCount, intervalId, mapKeys,
                 listenerArrays, nextUid, idCount, abortedPending>>

\* processNextJobs, lines 176-181, after runJob has returned its promise
PnjAfterRunJob ==
  /\ stack # <<>> /\ Top.k = "processNextJobs" /\ Top.pc = "afterRunJob"
  /\ intervalCount' = IF cfg.intervalCap # 0 THEN intervalCount + 1 ELSE intervalCount
  /\ stack' = Append(Rest, FPnj(IF cfg.intervalCap # 0 /\ intervalCount' >= cfg.intervalCap
                                THEN "tail" ELSE "loop"))
  /\ UNCHANGED <<cfg, queue, running, isPaused, isDestroyed, intervalId, jobMap, mapKeys,
                 listenerArrays, runs, histVars>>

\* the code after emit(EMPTY) without its test of running: IDLE on every EMPTY
PnjAfterEmptyAlways ==
  /\ stack # <<>> /\ Top.k = "processNextJobs" /\ Top.pc = "afterEmpty"
  /\ stack' = Rest \o Emit(isDestroyed, "idle", NoId)
  /\ UNCHANGED <<cfg, progVars, histVars>>

\* processNextJobs, lines 187-189, after emit(EMPTY) has returned
PnjAfterEmpty ==
  /\ stack # <<>> /\ Top.k = "processNextJobs" /\ Top.pc = "afterEmpty"
  /\ stack' = Rest \o (IF running = 0 THEN Emit(isDestroyed, "idle", NoId) ELSE <<>>)
  /\ UNCHANGED <<cfg, progVars, histVars>>

\* ------------------------------------------------------------ runJob

\* runJob, lines 243-247, after emit(NEXT, {id}) has returned: throw when the
\* controller is already aborted (caught at 252), else call the job
RunJobAfterNext ==
  /\ stack # <<>> /\ Top.k = "runJob" /\ Top.pc = "afterNext"
  /\ LET uid == Top.uid IN
     IF runs[uid].aborted
     THEN /\ stack' = Rest \o <<FRunJob(uid, "finally")>>
                           \o Emit(isDestroyed, "error", runs[uid].id)
          /\ runs' = [runs EXCEPT ![uid].phase = "settled"]
     ELSE /\ stack' = Rest \o <<FRunJob(uid, "await"), FCallback("job", uid)>>
          /\ runs' = [runs EXCEPT ![uid].phase = "invoked"]
  /\ UNCHANGED <<cfg, queue, running, isPaused, isDestroyed, intervalCount, intervalId,
                 jobMap, mapKeys, listenerArrays, histVars>>

\* runJob, line 247: the job has returned its promise, the await suspends runJob
RunJobAwait ==
  /\ stack # <<>> /\ Top.k = "runJob" /\ Top.pc = "await"
  /\ stack' = Rest
  /\ UNCHANGED <<cfg, progVars, histVars>>

\* runJob, lines 247 and 252-255: the job throws before it returns a promise,
\* the catch block runs in the same task
JobThrow ==
  /\ InCallback /\ Top.who = "job"
  /\ LET uid == Top.of IN
     /\ stack' = SubSeq(stack, 1, Len(stack) - 2) \o <<FRunJob(uid, "finally")>>
                    \o Emit(isDestroyed, "error", runs[uid].id)
     /\ runs' = [runs EXCEPT ![uid].phase = "settled"]
  /\ UNCHANGED <<cfg, queue, running, isPaused, isDestroyed, intervalCount, intervalId,
                 jobMap, mapKeys, listenerArrays, histVars>>

\* the resumption of runJob that emits COMPLETED whatever the promise did
SettleAlwaysCompleted(uid, event) ==
  /\ Idle
  /\ uid \in DOMAIN runs /\ runs[uid].phase = "invoked"
  /\ stack' = <<FRunJob(uid, "finally")>> \o Emit(isDestroyed, "completed", runs[uid].id)
  /\ runs' = [runs EXCEPT ![uid].phase = "settled"]
  /\ UNCHANGED <<cfg, queue, running, isPaused, isDestroyed, intervalCount, intervalId,
                 jobMap, mapKeys, listenerArrays, histVars>>

\* runJob, lines 247-255: the job's promise settles and runJob resumes in a
\* task of its own: COMPLETED when it fulfilled, ERROR when it rejected
Settle(uid, event) ==
  /\ Idle
  /\ uid \in DOMAIN runs /\ runs[uid].phase = "invoked"
  /\ stack' = <<FRunJob(uid, "finally")>> \o Emit(isDestroyed, event, runs[uid].id)
  /\ runs' = [runs EXCEPT ![uid].phase = "settled"]
  /\ UNCHANGED <<cfg, queue, running, isPaused, isDestroyed, intervalCount, intervalId,
                 jobMap, mapKeys, listenerArrays, histVars>>

\* runJob, lines 256-270: finally
RunJobFinally ==
  /\ stack # <<>> /\ Top.k = "runJob" /\ Top.pc = "finally"
  /\ jobMap' = MapDelete(jobMap, runs[Top.uid].id)
  /\ running' = running - 1
  /\ runs' = MapDelete(runs, Top.uid)
  /\ stack' = IF ~isDestroyed /\ ~isPaused THEN Append(Rest, FPnj("enter")) ELSE Rest
  /\ UNCHANGED <<cfg, queue, isPaused, isDestroyed, intervalCount, intervalId, mapKeys,
                 listenerArrays, histVars>>

\* setTimeout callback, lines 223-225: the job's timeout expires
TimeoutFire(uid) ==
  /\ Idle
  /\ uid \in DOMAIN runs /\ runs[uid].timer
  /\ runs' = [runs EXCEPT ![uid].aborted = TRUE, ![uid].timer = FALSE]
  /\ UNCHANGED <<cfg, queue, running, isPaused, isDestroyed, intervalCount, intervalId,
                 jobMap, mapKeys, listenerArrays, stack, histVars>>

\* the caller aborts the signal that the jobs S were added with: the queued
\* ones read signal.aborted at line 169, the 'abort' listeners of lines
\* 216-218 abort the controllers of the started ones
AbortSignal(S) ==
  /\ CanCall
  /\ S # {}
  /\ \A u \in S : \/ \E i \in 1..Len(queue) : queue[i].value.uid = u /\ queue[i].value.sig = 1
                  \/ u \in DOMAIN runs /\ runs[u].sig = 1
  /\ queue' = [i \in 1..Len(queue) |->
                IF queue[i].value.uid \in S THEN [queue[i] EXCEPT !.value.sig = 2]
                ELSE queue[i]]
  /\ runs' = [u \in DOMAIN runs |->
                IF u \in S THEN [runs[u] EXCEPT !.aborted = TRUE, !.sig = 2] ELSE runs[u]]
  /\ stack' = Base
  /\ UNCHANGED <<cfg, running, isPaused, isDestroyed, intervalCount, intervalId,
                 jobMap, mapKeys, listenerArrays, histVars>>

\* ------------------------------------------------------------ emit, listeners

\* emit, lines 108-110: for (const listener of listeners) reads the array's
\* length at every turn
EmitLoop ==
  /\ stack # <<>> /\ Top.k = "emit"
  /\ LET arr == listenerArrays[Top.ev] IN
     stack' = IF Top.i <= Len(arr)
              THEN Rest \o <<[Top EXCEPT !.i = @ + 1], FCallback("listener", arr[Top.i])>>
              ELSE Rest
  /\ UNCHANGED <<cfg, progVars, histVars>>

\* a listener, or the synchronous part of a job body, returns
CallbackReturn ==
  /\ InCallback
  /\ stack' = Rest
  /\ UNCHANGED <<cfg, progVars, histVars>>

RECURSIVE SumLen(_)
SumLen(E) == IF E = {} THEN 0
             ELSE LET e == CHOOSE x \in E : TRUE IN Len(listenerArrays[e]) + SumLen(E \ {e})

\* on(event, listener), lines 467-478
On(ev, listener) ==
  /\ CanCall
  /\ stack' = Base
  /\ IF isDestroyed
     THEN UNCHANGED <<mapKeys, listenerArrays>>
     ELSE /\ SumLen(Events) < MaxListeners
          /\ mapKeys' = mapKeys \cup {ev}
          /\ listenerArrays' = [listenerArrays EXCEPT ![ev] = Append(@, listener)]
  /\ UNCHANGED <<cfg, queue, running, isPaused, isDestroyed, intervalCount, intervalId,
                 jobMap, runs, histVars>>

\* ------------------------------------------------------------ start, pause, resume, clear

\* start(), lines 276-281
Start ==
  /\ CanCall
  /\ stack' = IF ~isDestroyed /\ ~isPaused THEN Append(Base, FPnj("enter")) ELSE Base
  /\ UNCHANGED <<cfg, progVars, histVars>>

\* pause(), lines 286-292
Pause ==
  /\ CanCall
  /\ isPaused' = IF ~isDestroyed THEN TRUE ELSE isPaused
  /\ stack' = IF ~isDestroyed THEN Base \o Emit(isDestroyed, "paused", NoId) ELSE Base
  /\ UNCHANGED <<cfg, queue, running, isDestroyed, intervalCount, intervalId, jobMap,
                 mapKeys, listenerArrays, runs, histVars>>

\* resume(), lines 297-300
Resume ==
  /\ CanCall
  /\ isPaused' = IF ~isDestroyed THEN FALSE ELSE isPaused
  /\ stack' = IF ~isDestroyed
              THEN Base \o <<[k |-> "resume"]>> \o Emit(isDestroyed, "resumed", NoId)
              ELSE Base
  /\ UNCHANGED <<cfg, queue, running, isDestroyed, intervalCount, intervalId, jobMap,
                 mapKeys, listenerArrays, runs, histVars>>

\* resume(), line 301, after emit(RESUMED) has returned
ResumeAfterResumed ==
  /\ stack # <<>> /\ Top.k = "resume"
  /\ stack' = Append(Rest, FPnj("enter"))
  /\ UNCHANGED <<cfg, progVars, histVars>>

\* clear(), lines 309-321
Clear ==
  /\ CanCall
  /\ stack' = Base
  /\ queue' = IF ~isDestroyed THEN <<>> ELSE queue
  /\ jobMap' = IF ~isDestroyed
               THEN [x \in {y \in DOMAIN jobMap : jobMap[y].controller # NoId} |-> jobMap[x]]
               ELSE jobMap
  /\ UNCHANGED <<cfg, running, isPaused, isDestroyed, intervalCount, intervalId, mapKeys,
                 listenerArrays, runs, histVars>>

\* the setInterval callback, lines 87-97
Tick ==
  /\ Idle
  /\ intervalId
  /\ IF isDestroyed
     THEN /\ intervalId' = FALSE
          /\ UNCHANGED <<intervalCount, stack, windowStarts>>
     ELSE /\ intervalCount' = 0
          /\ stack' = <<FPnj("enter")>>
          /\ windowStarts' = 0
          /\ UNCHANGED intervalId
  /\ UNCHANGED <<cfg, queue, running, isPaused, isDestroyed, jobMap, mapKeys,
                 listenerArrays, runs, nextUid, idCount, abortedPending>>

\* ------------------------------------------------------------ setPriority, abort

\* setPriority, lines 373-382: every item of toArray() enqueued again, the
\* items of the given id with the new priority
RECURSIVE SetPriorityRequeue(_, _, _, _, _)
SetPriorityRequeue(arr, i, q, id, priority) ==
  IF i > Len(arr) THEN q
  ELSE SetPriorityRequeue(arr, i + 1,
         PQEnqueue(q, arr[i].value,
                   IF arr[i].value.id = id THEN priority ELSE arr[i].priority),
         id, priority)

\* the rebuild of abort without its test of the id: every item enqueued again
RECURSIVE AbortRequeueKeep(_, _, _, _)
AbortRequeueKeep(arr, i, q, id) ==
  IF i > Len(arr) THEN q
  ELSE AbortRequeueKeep(arr, i + 1, PQEnqueue(q, arr[i].value, arr[i].priority), id)

\* abort, lines 421-428: every item of toArray() but those of the given id
\* enqueued again
RECURSIVE AbortRequeue(_, _, _, _)
AbortRequeue(arr, i, q, id) ==
  IF i > Len(arr) THEN q
  ELSE AbortRequeue(arr, i + 1,
         IF arr[i].value.id = id THEN q ELSE PQEnqueue(q, arr[i].value, arr[i].priority),
         id)

\* found, lines 370-376 and 418-424: some queued item has the id
Found(q, id) == \E i \in 1..Len(q) : q[i].value.id = id

\* what setPriority(id, priority) returns, lines 348-389
SetPriorityRet(id) ==
  IF isDestroyed \/ id \notin DOMAIN jobMap THEN FALSE
  ELSE IF jobMap[id].controller # NoId THEN TRUE
  ELSE Found(queue, id)

\* setPriority(id, priority), lines 347-390
SetPriority(id, priority) ==
  /\ CanCall
  /\ stack' = Base
  /\ IF isDestroyed \/ id \notin DOMAIN jobMap
     THEN UNCHANGED <<queue, jobMap>>
     ELSE IF jobMap[id].controller # NoId
     THEN /\ jobMap' = MapSet(jobMap, id, [jobMap[id] EXCEPT !.priority = priority])
          /\ UNCHANGED queue
     ELSE /\ queue' = SetPriorityRequeue(PQToArray(queue), 1, <<>>, id, priority)
          /\ jobMap' = IF Found(queue, id)
                       THEN MapSet(jobMap, id, [priority |-> priority, controller |-> NoId,
                                                timeoutId |-> NoId])
                       ELSE jobMap
  /\ UNCHANGED <<cfg, running, isPaused, isDestroyed, intervalCount, intervalId, mapKeys,
                 listenerArrays, runs, histVars>>

\* what abort(id) returns, lines 396-435
AbortRet(id) ==
  IF isDestroyed \/ id \notin DOMAIN jobMap THEN FALSE
  ELSE IF jobMap[id].controller # NoId THEN TRUE
  ELSE Found(queue, id)

\* abort(id, reason), lines 395-436
Abort(id) ==
  /\ CanCall
  /\ stack' = Base
  /\ abortedPending' = IF Found(queue, id) THEN abortedPending \cup {id} ELSE abortedPending
  /\ IF isDestroyed \/ id \notin DOMAIN jobMap
     THEN UNCHANGED <<queue, jobMap, runs>>
     ELSE IF jobMap[id].controller # NoId
     THEN /\ runs' = [u \in DOMAIN runs |->
                       IF u = jobMap[id].controller THEN [runs[u] EXCEPT !.aborted = TRUE]
                       ELSE runs[u]]
          /\ UNCHANGED <<queue, jobMap>>
     ELSE /\ queue' = AbortRequeue(PQToArray(queue), 1, <<>>, id)
          /\ jobMap' = IF Found(queue, id) THEN MapDelete(jobMap, id) ELSE jobMap
          /\ UNCHANGED runs
  /\ UNCHANGED <<cfg, running, isPaused, isDestroyed, intervalCount, intervalId, mapKeys,
                 listenerArrays, nextUid, idCount, windowStarts>>

\* ------------------------------------------------------------ destroy

\* destroy, lines 548-555: abort every stored controller, clear every stored timer
DestroyRuns ==
  LET ctl == {jobMap[x].controller : x \in DOMAIN jobMap}
      tmr == {jobMap[x].timeoutId : x \in DOMAIN jobMap}
  IN [u \in DOMAIN runs |->
        [runs[u] EXCEPT !.aborted = (@ \/ u \in ctl), !.timer = (@ /\ u \notin tmr)]]

\* destroy(), lines 533-563
Destroy ==
  /\ CanCall
  /\ stack' = Base
  /\ IF isDestroyed
     THEN UNCHANGED progVars
     ELSE /\ isDestroyed' = TRUE
          /\ isPaused' = TRUE
          /\ intervalId' = FALSE
          /\ runs' = DestroyRuns
          /\ jobMap' = <<>>
          /\ queue' = <<>>
          /\ mapKeys' = {}
          /\ running' = 0
          /\ intervalCount' = 0
          /\ UNCHANGED listenerArrays
  /\ UNCHANGED <<cfg, histVars>>

\* ------------------------------------------------------------ specification

Ids == 1..MaxAdds
Uids == 1..MaxAdds

Next ==
  \/ \E id \in 1..(idCount + 1), priority \in Priorities, sig \in Signals :
        /\ isDestroyed \/ nextUid < MaxAdds
        /\ sig # 0 => Cardinality(SignalJobs) < MaxSignalJobs
        /\ Add(id, priority, sig) /\ UNCHANGED <<obsVars, utilVars>>
  \/ AddAfterAdded /\ UNCHANGED <<obsVars, utilVars>>
  \/ ProcessNextJobs /\ UNCHANGED <<obsVars, utilVars>>
  \/ PnjAfterRunJob /\ UNCHANGED <<obsVars, utilVars>>
  \/ PnjAfterEmpty /\ UNCHANGED <<obsVars, utilVars>>
  \/ RunJobAfterNext /\ UNCHANGED <<obsVars, utilVars>>
  \/ RunJobAwait /\ UNCHANGED <<obsVars, utilVars>>
  \/ JobThrow /\ UNCHANGED <<obsVars, utilVars>>
  \/ \E uid \in Uids, event \in {"completed", "error"} :
        Settle(uid, event) /\ UNCHANGED <<obsVars, utilVars>>
  \/ RunJobFinally /\ UNCHANGED <<obsVars, utilVars>>
  \/ \E uid \in Uids : TimeoutFire(uid) /\ UNCHANGED <<obsVars, utilVars>>
  \/ \E S \in SUBSET Uids : AbortSignal(S) /\ UNCHANGED <<obsVars, utilVars>>
  \/ EmitLoop /\ UNCHANGED <<obsVars, utilVars>>
  \/ CallbackReturn /\ UNCHANGED <<obsVars, utilVars>>
  \/ \E ev \in ListenEvents : On(ev, "f") /\ UNCHANGED <<obsVars, utilVars>>
  \/ Start /\ UNCHANGED <<obsVars, utilVars>>
  \/ Pause /\ UNCHANGED <<obsVars, utilVars>>
  \/ Resume /\ UNCHANGED <<obsVars, utilVars>>
  \/ ResumeAfterResumed /\ UNCHANGED <<obsVars, utilVars>>
  \/ Clear /\ UNCHANGED <<obsVars, utilVars>>
  \/ Tick /\ UNCHANGED <<obsVars, utilVars>>
  \/ \E id \in Ids, priority \in Priorities :
        SetPriority(id, priority) /\ UNCHANGED <<obsVars, utilVars>>
  \/ \E id \in Ids : Abort(id) /\ UNCHANGED <<obsVars, utilVars>>
  \/ Destroy /\ UNCHANGED <<obsVars, utilVars>>

Spec == Init /\ [][Next]_vars

\* ------------------------------------------------------------ scenario

\* the scenario of five jobs: their priorities in the order of submission
ScenarioPriorities == <<1, 5, 10, 3, 8>>
ScenarioJobs == Len(ScenarioPriorities)

\* new JobQueue({concurrency: 2}) and new JobQueue({concurrency: 2, autoStart: false})
ScenarioInit ==
  \E a \in BOOLEAN :
    /\ InitState([concurrency |-> 2, autoStart |-> a, intervalCap |-> 0,
                  interval |-> FALSE, timeout |-> FALSE])
    /\ UtilNew

\* what a step adds to the record of the scenario: the job object runJob
\* started, the emit(IDLE) that began
Observe ==
  /\ startOrder' = IF DOMAIN runs' \ DOMAIN runs # {}
                   THEN Append(startOrder, CHOOSE u \in DOMAIN runs' \ DOMAIN runs : TRUE)
                   ELSE startOrder
  /\ idleEmitted' = IF /\ stack' # <<>>
                       /\ stack'[Len(stack')].k = "emit"
                       /\ stack'[Len(stack')].ev = "idle"
                       /\ stack'[Len(stack')].i = 1
                    THEN idleEmitted + 1 ELSE idleEmitted
  /\ UNCHANGED <<heard, utilVars>>

\* the five add() calls follow each other, start() follows them when autoStart
\* is off, and the jobs settle, in any order, after the last add()
ScenarioNext ==
  \/ /\ Idle /\ nextUid < ScenarioJobs
     /\ Add(nextUid + 1, ScenarioPriorities[nextUid + 1], 0) /\ Observe
  \/ /\ Idle /\ ~cfg.autoStart /\ nextUid = ScenarioJobs /\ startOrder = <<>>
     /\ Start /\ Observe
  \/ \E uid \in 1..ScenarioJobs, event \in {"completed", "error"} :
        nextUid = ScenarioJobs /\ Settle(uid, event) /\ Observe
  \/ AddAfterAdded /\ Observe
  \/ ProcessNextJobs /\ Observe
  \/ PnjAfterRunJob /\ Observe
  \/ PnjAfterEmpty /\ Observe
  \/ RunJobAfterNext /\ Observe
  \/ RunJobAwait /\ Observe
  \/ RunJobFinally /\ Observe
  \/ EmitLoop /\ Observe
  \/ CallbackReturn /\ Observe

SpecScenario == ScenarioInit /\ [][ScenarioNext]_vars

\* ------------------------------------------------------------ PriorityQueue by itself

\* the values enqueued: two, so that an entry can be enqueued twice
PQValues == {"a", "b"}

\* the variables of the JobQueue
jqVars == <<cfg, progVars, stack, histVars, obsVars>>

\* enqueue(value, priority)
PQEnqueueStep(value, priority) ==
  /\ pqNext < MaxEnqueues
  /\ pq' = PQEnqueue(pq, value, priority)
  /\ pqSer' = Append(pqSer, pqNext + 1)
  /\ pqNext' = pqNext + 1
  /\ pqOut' = <<>>
  /\ UNCHANGED <<pqPeeked, jqVars, lim, ml, memo>>

\* the entries the rebuild of dequeue() keeps, lines 34-43
PQKept(q) ==
  LET h == PQHighest(q)
  IN {i \in 1..Len(q) : q[i].priority # h.priority \/ q[i].value # h.value}

\* the subsequence of s at the indices in K
RECURSIVE Pick(_, _, _)
Pick(s, K, i) ==
  IF i > Len(s) THEN <<>>
  ELSE (IF i \in K THEN <<s[i]>> ELSE <<>>) \o Pick(s, K, i + 1)

\* dequeue()
PQDequeueStep ==
  /\ pq # <<>>
  /\ LET item == PQDequeue(pq) IN
     /\ pq' = item.queue
     /\ pqSer' = Pick(pqSer, PQKept(pq), 1)
     /\ pqOut' = Append(pqOut, [value |-> item.value, priority |-> item.priority,
                                ser |-> pqSer[PQScan(pq, 1, 0)]])
  /\ UNCHANGED <<pqPeeked, pqNext, jqVars, lim, ml, memo>>

\* peek()
PQPeekStep ==
  /\ pq' = PQPeek(pq).queue
  /\ pqPeeked' = PQPeek(pq).value
  /\ UNCHANGED <<pqSer, pqOut, pqNext, jqVars, lim, ml, memo>>

\* clear()
PQClearStep ==
  /\ pq # <<>>
  /\ pq' = <<>>
  /\ pqSer' = <<>>
  /\ pqOut' = <<>>
  /\ UNCHANGED <<pqPeeked, pqNext, jqVars, lim, ml, memo>>

PQInit == InitState(CHOOSE c \in Configs : TRUE) /\ UtilNew

PQNext ==
  \/ \E value \in PQValues, priority \in Priorities : PQEnqueueStep(value, priority)
  \/ PQDequeueStep
  \/ PQPeekStep
  \/ PQClearStep

SpecPQ == PQInit /\ [][PQNext]_vars

\* ------------------------------------------------------------ limit

\* the while loop of next() that starts every remaining task at once
RECURSIVE LimLoopUnbounded(_)
LimLoopUnbounded(l) ==
  IF l.index < l.tasks
  THEN LimLoopUnbounded([l EXCEPT !.active = @ + 1, !.index = @ + 1,
                                  !.status[l.index + 1] = "running",
                                  !.invoked[l.index + 1] = @ + 1])
  ELSE l

\* next(), lines 25-33: while (active < n && index < tasks.length) start a task
RECURSIVE LimLoop(_)
LimLoop(l) ==
  IF l.active < l.n /\ l.index < l.tasks
  THEN LimLoop([l EXCEPT !.active = @ + 1, !.index = @ + 1,
                         !.status[l.index + 1] = "running",
                         !.invoked[l.index + 1] = @ + 1])
  ELSE l

\* next(), lines 20-34
LimNextFn(l) ==
  IF l.index >= l.tasks /\ l.active = 0
  THEN [l EXCEPT !.resolved = @ + 1]
  ELSE LimLoop(l)

\* the executor of the promise limit() returns, lines 16-36
LimitCall ==
  /\ ~lim.called
  /\ lim' = LimNextFn([lim EXCEPT !.called = TRUE])
  /\ UNCHANGED <<jqVars, pqVars, ml, memo>>

\* the promise of task t fulfils or rejects
TaskSettle(t) ==
  /\ t \in 1..lim.tasks /\ lim.status[t] = "running"
  /\ lim' = [lim EXCEPT !.status[t] = "settled"]
  /\ UNCHANGED <<jqVars, pqVars, ml, memo>>

\* the finally callback of task t, lines 29-32
TaskFinally(t) ==
  /\ t \in 1..lim.tasks /\ lim.status[t] = "settled"
  /\ lim' = LimNextFn([lim EXCEPT !.status[t] = "done", !.active = @ - 1])
  /\ UNCHANGED <<jqVars, pqVars, ml, memo>>

LimitInit ==
  /\ InitState(CHOOSE c \in Configs : TRUE)
  /\ PQNew
  /\ \E tasks \in 0..MaxTasks, n \in 1..MaxLimit : lim = LimStart(tasks, n)
  /\ ml = MlNew(1)
  /\ memo = MemoNew(1, 0)

LimitNext ==
  \/ LimitCall
  \/ \E t \in 1..MaxTasks : TaskSettle(t)
  \/ \E t \in 1..MaxTasks : TaskFinally(t)

SpecLimit == LimitInit /\ [][LimitNext]_vars

\* ------------------------------------------------------------ makeLimit

\* runNext without the test of running against concurrency
MlRunNextNoLimit(m) ==
  IF Len(m.queue) = 0 THEN m
  ELSE LET d == QDequeue(m.queue)
       IN [m EXCEPT !.queue = d.queue,
                    !.running = @ + 1,
                    !.started = Append(@, d.value),
                    !.status[d.value] = IF m.throws[d.value] THEN "threw" ELSE "running"]

\* runNext, lines 51-61: nothing when the queue is empty or running has
\* reached concurrency; else the head of the queue is taken, running++ and
\* the function is called.  A function that throws instead of returning a
\* promise ends runNext there: no finally callback is attached, running stays
\* incremented
MlRunNext(m) ==
  IF Len(m.queue) = 0 \/ m.running >= m.concurrency THEN m
  ELSE LET d == QDequeue(m.queue)
       IN [m EXCEPT !.queue = d.queue,
                    !.running = @ + 1,
                    !.started = Append(@, d.value),
                    !.status[d.value] = IF m.throws[d.value] THEN "threw" ELSE "running"]

\* the executor called with a function, lines 62-67: the function is enqueued
\* and runNext called.  The functions are numbered in the order they are handed
\* in; throws says whether the function throws instead of returning a promise
MlSubmit(throws) ==
  /\ Len(ml.status) < MaxSubmits
  /\ ml' = MlRunNext([ml EXCEPT !.queue = QEnqueue(@, Len(ml.status) + 1),
                                !.status = Append(@, "queued"),
                                !.throws = Append(@, throws)])
  /\ UNCHANGED <<jqVars, pqVars, lim, memo>>

\* the promise function t returned fulfils or rejects
MlSettle(t) ==
  /\ t \in 1..Len(ml.status) /\ ml.status[t] = "running"
  /\ ml' = [ml EXCEPT !.status[t] = "settled"]
  /\ UNCHANGED <<jqVars, pqVars, lim, memo>>

\* the finally callback of function t, lines 57-60
MlFinally(t) ==
  /\ t \in 1..Len(ml.status) /\ ml.status[t] = "settled"
  /\ ml' = MlRunNext([ml EXCEPT !.status[t] = "done", !.running = @ - 1])
  /\ UNCHANGED <<jqVars, pqVars, lim, memo>>

MakeLimitInit ==
  /\ InitState(CHOOSE c \in Configs : TRUE)
  /\ PQNew
  /\ lim = LimStart(0, 1)
  /\ \E c \in 1..MaxMakeLimit : ml = MlNew(c)
  /\ memo = MemoNew(1, 0)

MakeLimitNext ==
  \/ \E throws \in BOOLEAN : MlSubmit(throws)
  \/ \E t \in 1..MaxSubmits : MlSettle(t)
  \/ \E t \in 1..MaxSubmits : MlFinally(t)

SpecMakeLimit == MakeLimitInit /\ [][MakeLimitNext]_vars

\* ------------------------------------------------------------ memoPromise

\* the keys keyFn returns: the empty string is one of them
MemoKeys == {"", "a", "b"}

\* what if (x) takes for true, of a string
Truthy(str) == str # ""

\* Map: has, get, delete, set.  The cache is the sequence of the Map's entries
\* in insertion order, which is the order keys() iterates in; set of a key
\* that is present keeps its place
MemoHas(cache, key) == \E i \in 1..Len(cache) : cache[i].key = key
MemoGet(cache, key) == cache[CHOOSE i \in 1..Len(cache) : cache[i].key = key]
MemoDelete(cache, key) == SelectSeq(cache, LAMBDA e : e.key # key)
MemoSet(cache, key, e) ==
  IF MemoHas(cache, key)
  THEN [i \in 1..Len(cache) |-> IF cache[i].key = key THEN e ELSE cache[i]]
  ELSE Append(cache, e)

\* the expiry test that takes an entry without expiry for expired
MemoFreshStrict(e, now) == e.expiry > now

\* line 25: !expiry || expiry > Date.now(); expiry null is 0 here, and no
\* expiry that was computed is 0, the clock being positive
MemoFresh(e, now) == e.expiry = 0 \/ e.expiry > now

\* lines 37-42: a cache that is full loses the first key keys() yields, if (oldestKey)
MemoEvict(cache, maxSize) ==
  IF Len(cache) >= maxSize /\ cache # <<>> /\ Truthy(cache[1].key)
  THEN MemoDelete(cache, cache[1].key)
  ELSE cache

\* the memoized function called with arguments of the given key, lines 19-55.
\* The promises asyncFn returns are numbered in the order of its invocations;
\* throws says that asyncFn throws instead of returning a promise, which
\* leaves line 32 with the rejection of the call
MemoCallFn(m, key, throws) ==
  LET called == [m EXCEPT !.calls = @ + 1, !.key = key]
      p == Len(m.status) + 1
      expired == IF MemoHas(m.cache, key) THEN MemoDelete(m.cache, key) ELSE m.cache
      expiry == IF m.expiresIn > 0 THEN m.now + m.expiresIn ELSE 0
  IN IF MemoHas(m.cache, key) /\ MemoFresh(MemoGet(m.cache, key), m.now)
     THEN [called EXCEPT !.ret = MemoGet(m.cache, key).promise]
     ELSE IF throws
     THEN [called EXCEPT !.cache = expired, !.ret = 0,
                         !.status = Append(@, "threw"),
                         !.pkey = Append(@, key),
                         !.handler = Append(@, FALSE)]
     ELSE [called EXCEPT !.cache = IF m.maxSize > 0
                                   THEN MemoSet(MemoEvict(expired, m.maxSize), key,
                                                [key |-> key, promise |-> p, expiry |-> expiry])
                                   ELSE expired,
                         !.ret = p,
                         !.status = Append(@, "pending"),
                         !.pkey = Append(@, key),
                         !.handler = Append(@, m.maxSize > 0)]

MemoCall(key, throws) ==
  /\ memo.calls < MaxMemoCalls
  /\ memo' = MemoCallFn(memo, key, throws)
  /\ UNCHANGED <<jqVars, pqVars, lim, ml>>

\* the promise of invocation p fulfils or rejects
MemoSettle(p, outcome) ==
  /\ p \in 1..Len(memo.status) /\ memo.status[p] = "pending"
  /\ memo' = [memo EXCEPT !.status[p] = outcome]
  /\ UNCHANGED <<jqVars, pqVars, lim, ml>>

\* the catch callback of the promise of invocation p, lines 49-51
MemoCatch(p) ==
  /\ p \in 1..Len(memo.status) /\ memo.status[p] = "rejected" /\ memo.handler[p]
  /\ memo' = [memo EXCEPT !.status[p] = "caught",
                          !.cache = MemoDelete(@, memo.pkey[p])]
  /\ UNCHANGED <<jqVars, pqVars, lim, ml>>

\* time passes: Date.now() reads one more
MemoClock ==
  /\ memo.now < MaxNow
  /\ memo' = [memo EXCEPT !.now = @ + 1]
  /\ UNCHANGED <<jqVars, pqVars, lim, ml>>

MemoInit ==
  /\ InitState(CHOOSE c \in Configs : TRUE)
  /\ PQNew
  /\ lim = LimStart(0, 1)
  /\ ml = MlNew(1)
  /\ \E maxSize \in (-1)..MaxMemoSize, expiresIn \in 0..MaxExpiresIn :
        memo = MemoNew(maxSize, expiresIn)

MemoNext ==
  \/ \E key \in MemoKeys, throws \in BOOLEAN : MemoCall(key, throws)
  \/ \E p \in 1..MaxMemoCalls, outcome \in {"fulfilled", "rejected"} : MemoSettle(p, outcome)
  \/ \E p \in 1..MaxMemoCalls : MemoCatch(p)
  \/ MemoClock

SpecMemo == MemoInit /\ [][MemoNext]_vars

\* ------------------------------------------------------------ before start()

\* a queue constructed with autoStart off
NoStartInit == \E c \in Configs : ~c.autoStart /\ InitState(c) /\ UtilNew

\* what happens as long as the caller calls neither start() nor resume()
NoStartNext ==
  \/ \E id \in 1..(idCount + 1), priority \in Priorities, sig \in Signals :
        /\ isDestroyed \/ nextUid < MaxAdds
        /\ sig # 0 => Cardinality(SignalJobs) < MaxSignalJobs
        /\ Add(id, priority, sig) /\ UNCHANGED <<obsVars, utilVars>>
  \/ AddAfterAdded /\ UNCHANGED <<obsVars, utilVars>>
  \/ ProcessNextJobs /\ UNCHANGED <<obsVars, utilVars>>
  \/ PnjAfterRunJob /\ UNCHANGED <<obsVars, utilVars>>
  \/ PnjAfterEmpty /\ UNCHANGED <<obsVars, utilVars>>
  \/ RunJobAfterNext /\ UNCHANGED <<obsVars, utilVars>>
  \/ RunJobAwait /\ UNCHANGED <<obsVars, utilVars>>
  \/ JobThrow /\ UNCHANGED <<obsVars, utilVars>>
  \/ \E uid \in Uids, event \in {"completed", "error"} :
        Settle(uid, event) /\ UNCHANGED <<obsVars, utilVars>>
  \/ RunJobFinally /\ UNCHANGED <<obsVars, utilVars>>
  \/ \E S \in SUBSET Uids : AbortSignal(S) /\ UNCHANGED <<obsVars, utilVars>>
  \/ EmitLoop /\ UNCHANGED <<obsVars, utilVars>>
  \/ CallbackReturn /\ UNCHANGED <<obsVars, utilVars>>
  \/ \E ev \in ListenEvents : On(ev, "f") /\ UNCHANGED <<obsVars, utilVars>>
  \/ Pause /\ UNCHANGED <<obsVars, utilVars>>
  \/ Clear /\ UNCHANGED <<obsVars, utilVars>>
  \/ Tick /\ UNCHANGED <<obsVars, utilVars>>
  \/ \E id \in Ids, priority \in Priorities :
        SetPriority(id, priority) /\ UNCHANGED <<obsVars, utilVars>>
  \/ \E id \in Ids : Abort(id) /\ UNCHANGED <<obsVars, utilVars>>
  \/ Destroy /\ UNCHANGED <<obsVars, utilVars>>

SpecNoStart == NoStartInit /\ [][NoStartNext]_vars

\* ------------------------------------------------------------ listeners that throw

\* the events the listeners that may throw are registered for
ThrowEvents == {"next", "completed", "error"}

\* a listener throws during an emission runJob made.  emit has no try block
\* (lines 108-110), so the exception leaves emit.  From emit(NEXT, {id}) and
\* emit(COMPLETED, {id}), which are inside the try block (lines 240 and 250),
\* it reaches the catch block, which emits ERROR (lines 252-255); from
\* emit(ERROR), in the catch block, it leaves catch and the finally block runs
ListenerThrow ==
  /\ InCallback /\ Top.who = "listener"
  /\ Len(stack) >= 3
  /\ stack[Len(stack) - 1].k = "emit" /\ stack[Len(stack) - 1].data # NoId
  /\ stack[Len(stack) - 2].k = "runJob"
  /\ LET uid == stack[Len(stack) - 2].uid
         below == SubSeq(stack, 1, Len(stack) - 3)
     IN IF stack[Len(stack) - 1].ev = "error"
        THEN /\ stack' = Append(below, FRunJob(uid, "finally"))
             /\ UNCHANGED runs
        ELSE /\ stack' = below \o <<FRunJob(uid, "finally")>>
                               \o Emit(isDestroyed, "error", runs[uid].id)
             /\ runs' = [runs EXCEPT ![uid].phase = "settled"]
  /\ UNCHANGED <<cfg, queue, running, isPaused, isDestroyed, intervalCount, intervalId,
                 jobMap, mapKeys, listenerArrays, histVars>>

\* a queue with autoStart on and no rate window
ThrowInit ==
  \E c \in Configs : c.autoStart /\ c.intervalCap = 0 /\ ~c.timeout /\ InitState(c) /\ UtilNew

ThrowNext ==
  \/ \E id \in 1..(idCount + 1), priority \in Priorities :
        /\ isDestroyed \/ nextUid < MaxAdds
        /\ Add(id, priority, 0) /\ UNCHANGED <<obsVars, utilVars>>
  \/ AddAfterAdded /\ UNCHANGED <<obsVars, utilVars>>
  \/ ProcessNextJobs /\ UNCHANGED <<obsVars, utilVars>>
  \/ PnjAfterRunJob /\ UNCHANGED <<obsVars, utilVars>>
  \/ PnjAfterEmpty /\ UNCHANGED <<obsVars, utilVars>>
  \/ RunJobAfterNext /\ UNCHANGED <<obsVars, utilVars>>
  \/ RunJobAwait /\ UNCHANGED <<obsVars, utilVars>>
  \/ JobThrow /\ UNCHANGED <<obsVars, utilVars>>
  \/ \E uid \in Uids, event \in {"completed", "error"} :
        Settle(uid, event) /\ UNCHANGED <<obsVars, utilVars>>
  \/ RunJobFinally /\ UNCHANGED <<obsVars, utilVars>>
  \/ EmitLoop /\ UNCHANGED <<obsVars, utilVars>>
  \/ CallbackReturn /\ UNCHANGED <<obsVars, utilVars>>
  \/ ListenerThrow /\ UNCHANGED <<obsVars, utilVars>>
  \/ \E ev \in ThrowEvents : On(ev, "f") /\ UNCHANGED <<obsVars, utilVars>>
  \/ \E id \in Ids : Abort(id) /\ UNCHANGED <<obsVars, utilVars>>
  \/ Destroy /\ UNCHANGED <<obsVars, utilVars>>

SpecThrow == ThrowInit /\ [][ThrowNext]_vars

\* ------------------------------------------------------------ on, off, once

\* the listeners of this specification: the functions f and g handed to on(),
\* and the wrapper onceListener that the k-th call of once() makes, line 506
Listener(fn) == [fn |-> fn, once |-> 0]
OnceListener(k) == [fn |-> "h", once |-> k]

\* listeners.indexOf(listener), 0 for -1
IndexOf(arr, listener) ==
  IF \E i \in 1..Len(arr) : arr[i] = listener
  THEN CHOOSE i \in 1..Len(arr) :
         arr[i] = listener /\ \A j \in 1..(i - 1) : arr[j] # listener
  ELSE 0

\* off, lines 490-493: splice(index, 1) at the first index of the listener
OffArray(arr, listener) ==
  LET index == IndexOf(arr, listener)
  IN IF index # 0
     THEN SubSeq(arr, 1, index - 1) \o SubSeq(arr, index + 1, Len(arr))
     ELSE arr

\* off(event, listener), lines 483-496
Off(ev, listener) ==
  /\ CanCall
  /\ stack' = Base
  /\ listenerArrays' = IF ~isDestroyed /\ ev \in mapKeys
                       THEN [listenerArrays EXCEPT ![ev] = OffArray(@, listener)]
                       ELSE listenerArrays
  /\ UNCHANGED <<cfg, queue, running, isPaused, isDestroyed, intervalCount, intervalId,
                 jobMap, mapKeys, runs, histVars>>

\* the listener the emission on top of the stack invokes next is a wrapper
\* made by once()
NextIsOnce ==
  /\ stack # <<>> /\ Top.k = "emit"
  /\ Top.i <= Len(listenerArrays[Top.ev])
  /\ listenerArrays[Top.ev][Top.i].once # 0

\* emit, lines 108-110, invokes a wrapper made by once(), which begins with
\* this.off(event, onceListener), lines 506-507, and then calls the listener
EmitLoopOnce ==
  /\ NextIsOnce
  /\ LET arr == listenerArrays[Top.ev] IN
     /\ stack' = Rest \o <<[Top EXCEPT !.i = @ + 1], FCallback("listener", arr[Top.i])>>
     /\ listenerArrays' = IF ~isDestroyed /\ Top.ev \in mapKeys
                          THEN [listenerArrays EXCEPT ![Top.ev] = OffArray(arr, arr[Top.i])]
                          ELSE listenerArrays
  /\ UNCHANGED <<cfg, queue, running, isPaused, isDestroyed, intervalCount, intervalId,
                 jobMap, mapKeys, runs, histVars>>

\* the record of the emission after a step of emit: the listener invoked, if any
Heard ==
  IF Top.i <= Len(listenerArrays[Top.ev])
  THEN LET l == listenerArrays[Top.ev][Top.i]
       IN [heard EXCEPT !.invoked = Append(@, l),
                        !.onceCalls = IF l.once # 0
                                      THEN [@ EXCEPT ![l.once] = @ + 1] ELSE @]
  ELSE heard

\* a queue whose listeners of PAUSED are registered and removed from outside,
\* remove themselves while they run, or are registered by once(); every
\* pause() emits PAUSED
ListenInit ==
  \E c \in Configs : c.autoStart /\ c.intervalCap = 0 /\ ~c.timeout /\ InitState(c) /\ UtilNew

ListenNext ==
  \/ \E fn \in {"f", "g"} :
        /\ Idle /\ On("paused", Listener(fn))
        /\ UNCHANGED <<startOrder, idleEmitted, heard, utilVars>>
  \/ /\ Idle /\ heard.onces < MaxOnces
     /\ On("paused", OnceListener(heard.onces + 1))
     /\ heard' = [heard EXCEPT !.onces = @ + 1]
     /\ UNCHANGED <<startOrder, idleEmitted, utilVars>>
  \/ \E i \in 1..MaxListeners :
        /\ Idle /\ i <= Len(listenerArrays["paused"])
        /\ Off("paused", listenerArrays["paused"][i])
        /\ UNCHANGED <<startOrder, idleEmitted, heard, utilVars>>
  \/ /\ InCallback /\ Top.who = "listener"
     /\ Off("paused", Top.of)
     /\ UNCHANGED <<startOrder, idleEmitted, heard, utilVars>>
  \/ /\ Idle /\ Pause
     /\ heard' = [heard EXCEPT !.at = listenerArrays["paused"], !.invoked = <<>>]
     /\ UNCHANGED <<startOrder, idleEmitted, utilVars>>
  \/ /\ ~NextIsOnce /\ EmitLoop
     /\ heard' = Heard
     /\ UNCHANGED <<startOrder, idleEmitted, utilVars>>
  \/ /\ EmitLoopOnce
     /\ heard' = Heard
     /\ UNCHANGED <<startOrder, idleEmitted, utilVars>>
  \/ CallbackReturn /\ UNCHANGED <<obsVars, utilVars>>

SpecListen == ListenInit /\ [][ListenNext]_vars

\* ------------------------------------------------------------ progress

\* a queue with autoStart on that is never destroyed, with no listeners, whose
\* jobs are not aborted, cleared or cancelled
LiveInit == \E c \in Configs : c.autoStart /\ ~c.timeout /\ InitState(c) /\ UtilNew

\* the executing methods go on to their end
LiveRun ==
  /\ \/ AddAfterAdded \/ ProcessNextJobs \/ PnjAfterRunJob \/ PnjAfterEmpty
     \/ RunJobAfterNext \/ RunJobAwait \/ RunJobFinally
     \/ EmitLoop \/ CallbackReturn \/ ResumeAfterResumed
  /\ UNCHANGED <<obsVars, utilVars>>

LiveAdd ==
  /\ \E priority \in Priorities :
        nextUid < MaxAdds /\ Add(nextUid + 1, priority, 0)
  /\ UNCHANGED <<obsVars, utilVars>>

LiveSettle(uid) ==
  /\ \E event \in {"completed", "error"} : Settle(uid, event)
  /\ UNCHANGED <<obsVars, utilVars>>

LivePause == ~isPaused /\ Pause /\ UNCHANGED <<obsVars, utilVars>>
LiveResume == isPaused /\ Resume /\ UNCHANGED <<obsVars, utilVars>>
LiveTick == Tick /\ UNCHANGED <<obsVars, utilVars>>

LiveNext ==
  \/ LiveRun
  \/ LiveAdd
  \/ \E uid \in Uids : LiveSettle(uid)
  \/ LivePause
  \/ LiveResume
  \/ LiveTick

\* the executing methods run to their end; every started job settles, every
\* pause is followed by a resume, the timer keeps ticking
SpecLive ==
  /\ LiveInit /\ [][LiveNext]_vars
  /\ WF_vars(LiveRun)
  /\ \A uid \in Uids : SF_vars(LiveSettle(uid))
  /\ SF_vars(LiveResume)
  /\ SF_vars(LiveTick)

\* ------------------------------------------------------------ properties

\* every id handed to add() so far was a new one
UniqueIds == idCount = nextUid

\* the jobs in flight: started and not yet settled
InFlight == {u \in DOMAIN runs : runs[u].phase # "settled"}

\* C1: in every reachable state the number of jobs in flight, started and not
\* yet settled, is at most the configured concurrency
C1_ConcurrencyBound == Cardinality(InFlight) <= cfg.concurrency

\* C1 witness: the limit is reached with a job still pending, inside a callback
\* that can call the queue again
C1_Witness ==
  /\ Cardinality(InFlight) = cfg.concurrency
  /\ queue # <<>>
  /\ InCallback

\* the job objects a step starts
Started == DOMAIN runs' \ DOMAIN runs

\* C2: whenever a job is started it has the maximum priority among the jobs
\* pending at that moment, and among those of that priority it is the one
\* submitted earliest
C2_HighestEarliestFirst ==
  [][\A u \in Started :
       \E i \in 1..Len(queue) :
         /\ queue[i].value.uid = u
         /\ \A j \in 1..Len(queue) :
              /\ queue[j].priority <= queue[i].priority
              /\ queue[j].priority = queue[i].priority => queue[j].value.uid >= u]_vars

\* C2 witness: the job submitted second has just been started, ahead of the
\* first one, which has a lower priority and is still pending
C2_Witness ==
  /\ UniqueIds
  /\ 2 \in DOMAIN runs /\ runs[2].phase = "starting"
  /\ runs[2].id \in DOMAIN jobMap /\ jobMap[runs[2].id].priority = 1
  /\ \E i \in 1..Len(queue) : queue[i].value.uid = 1 /\ queue[i].priority = 0

\* C3 as stated: with a rate window, at most intervalCap jobs are started
\* between two consecutive ticks
C3_WindowCap == HasWindow => windowStarts <= cfg.intervalCap

\* C4: with unique ids, abort(id) of a pending job returns true, and an id it
\* was called with while pending is in neither the queue nor the registry, has
\* no run, and no COMPLETED or ERROR is emitted for it
C4_AbortPending ==
  UniqueIds =>
    /\ \A id \in Ids : Found(queue, id) => AbortRet(id)
    /\ \A id \in abortedPending :
         /\ ~Found(queue, id)
         /\ id \notin DOMAIN jobMap
         /\ \A u \in DOMAIN runs : runs[u].id # id
         /\ \A i \in 1..Len(stack) :
              stack[i].k = "emit" =>
                ~(stack[i].ev \in {"completed", "error"} /\ stack[i].data = id)

\* C4 witness: a pending job was aborted, and afterwards a later job runs to
\* its terminal event
C4_Witness ==
  /\ UniqueIds
  /\ abortedPending # {}
  /\ \E i \in 1..Len(stack) :
       /\ stack[i].k = "emit" /\ stack[i].ev \in {"completed", "error"}
       /\ stack[i].data \notin abortedPending

\* a step that invokes a job's work or a listener
InvokeStep ==
  /\ Len(stack') = Len(stack) + 1
  /\ stack'[Len(stack')].k = "callback"

\* C5 as stated: once the queue is destroyed no job's work and no listener is
\* invoked
C5_NothingInvokedAfterDestroy == [][isDestroyed => ~InvokeStep]_vars

\* C6 as stated: destroy() signals the controller of every running job, no job
\* is started afterwards, and add() on the destroyed queue returns '' and
\* registers and enqueues nothing
C6_DestroySignalsRunning ==
  [][/\ (~isDestroyed /\ isDestroyed') =>
          \A u \in DOMAIN runs : runs[u].phase = "invoked" => runs'[u].aborted
     /\ isDestroyed => Started = {}
     /\ \A id \in Ids, priority \in Priorities, sig \in Signals :
          (isDestroyed /\ Add(id, priority, sig)) =>
             (AddRet(id) = "" /\ UNCHANGED <<queue, jobMap>>)]_vars

\* C7, amended: with concurrency 2, autoStart off and start() called after the
\* five jobs of priorities 1, 5, 10, 3, 8 were submitted, the first job started
\* is the one of priority 10 and the second the one of priority 8
C7_StartAfterAdds ==
  (~cfg.autoStart /\ Len(startOrder) >= 2) =>
     /\ ScenarioPriorities[startOrder[1]] = 10
     /\ ScenarioPriorities[startOrder[2]] = 8

\* C7 witness: autoStart off, two jobs were started and three are pending
C7_Witness ==
  /\ ~cfg.autoStart
  /\ Len(startOrder) = 2
  /\ Len(queue) = 3

\* C7 as stated: with the default options the first two jobs started are the
\* one of priority 10, then the one of priority 8 or 5
C7_Original ==
  (cfg.autoStart /\ Len(startOrder) >= 2) =>
     /\ ScenarioPriorities[startOrder[1]] = 10
     /\ ScenarioPriorities[startOrder[2]] \in {8, 5}

\* C8: with concurrency 2, no rate window and five jobs submitted before any of
\* them settles, IDLE is emitted only after all five have finished, and exactly
\* once by the time the queue has come to rest
C8_IdleOnce ==
  /\ idleEmitted <= 1
  /\ idleEmitted = 1 => (nextUid = ScenarioJobs /\ queue = <<>> /\ DOMAIN runs = {})
  /\ (Idle /\ nextUid = ScenarioJobs /\ Len(startOrder) = ScenarioJobs /\ DOMAIN runs = {})
        => idleEmitted = 1

\* C8 witness: all five jobs have run, the queue is at rest and IDLE was emitted
C8_Witness ==
  /\ Idle
  /\ Len(startOrder) = ScenarioJobs
  /\ DOMAIN runs = {}
  /\ idleEmitted = 1

\* the queue with the priority of the entries of the id replaced
Reprioritised(q, id, priority) ==
  [i \in 1..Len(q) |-> IF q[i].value.id = id THEN [q[i] EXCEPT !.priority = priority]
                       ELSE q[i]]

\* C9 as stated: setPriority(id, p) of a pending job returns true and changes
\* the priority of that job only, every entry keeping its place in the order
\* of insertion
C9_SetPriorityPending ==
  [][\A id \in Ids, priority \in Priorities :
       (Found(queue, id) /\ SetPriority(id, priority)) =>
          (SetPriorityRet(id) /\ queue' = Reprioritised(queue, id, priority))]_vars

\* C10 as stated: pause() on a paused queue changes no state and emits nothing
C10_PauseIdempotent ==
  [][(isPaused /\ ~isDestroyed /\ listenerArrays["paused"] # <<>> /\ Pause) =>
        (stack' = Base /\ UNCHANGED progVars)]_vars

\* C11 as stated: when interval and intervalCap are not both configured no
\* rate limit applies: with autoStart on, a queue at rest that is neither
\* paused nor destroyed has no pending job while a concurrency slot is free
C11_NoWindowNoLimit ==
  (~HasWindow /\ cfg.autoStart /\ Idle /\ ~isPaused /\ ~isDestroyed) =>
     (queue = <<>> \/ running >= cfg.concurrency)

\* C12: while the queue is paused no step starts a job; pause() leaves the
\* running jobs as they are; resume(), after emitting RESUMED, enters the
\* dispatch loop
C12_PausedStartsNothing ==
  [][/\ isPaused => Started = {}
     /\ Pause => (runs' = runs /\ running' = running)
     /\ (stack # <<>> /\ Top.k = "resume") => stack' = Append(Rest, FPnj("enter"))]_vars

\* C12 witness: the queue is paused with a job pending, and a running job has
\* settled and is in its finally block, about to free its slot
C12_Witness ==
  /\ isPaused /\ ~isDestroyed
  /\ queue # <<>>
  /\ stack # <<>> /\ Top.k = "runJob" /\ Top.pc = "finally"
  /\ running <= cfg.concurrency

\* the job objects in the queue
QueueUids(q) == {q[i].value.uid : i \in 1..Len(q)}

\* a step in which the work of the started job u rejects or throws
ErrorStep(u) ==
  /\ u \in DOMAIN runs /\ runs[u].phase = "invoked"
  /\ Settle(u, "error") \/ (JobThrow /\ Top.of = u)

\* after the step, runJob of u is in its catch block emitting ERROR with the id
EmitsError(u) ==
  /\ Len(stack') >= 2
  /\ stack'[Len(stack')].k = "emit"
  /\ stack'[Len(stack')].ev = "error"
  /\ stack'[Len(stack')].data = runs[u].id
  /\ stack'[Len(stack')].i = 1
  /\ stack'[Len(stack') - 1] = FRunJob(u, "finally")

\* every job object is pending, or has a run, or neither, and is in the queue once
JobsWellFormed ==
  /\ QueueUids(queue) \cap DOMAIN runs = {}
  /\ Cardinality(QueueUids(queue)) = Len(queue)
  /\ \A u \in QueueUids(queue) \cup DOMAIN runs : u <= nextUid

\* the parts of C13 that hold whatever the state of the queue: the finally
\* block removes the registry entry of the id and decrements running; a job
\* object enters the queue only by add(), a run begins only by leaving the
\* queue, and the work is invoked only in a run that has just begun
FinishedAndOnce ==
  /\ RunJobFinally =>
       (runs[Top.uid].id \notin DOMAIN jobMap' /\ running' = running - 1)
  /\ JobsWellFormed /\ JobsWellFormed'
  /\ QueueUids(queue') \ QueueUids(queue) \subseteq {nextUid + 1}
  /\ Started \subseteq QueueUids(queue) \ QueueUids(queue')
  /\ \A u \in DOMAIN runs' :
       (u \in DOMAIN runs /\ runs'[u].phase # runs[u].phase) =>
          \/ runs[u].phase = "starting"
          \/ runs[u].phase = "invoked" /\ runs'[u].phase = "settled"
  /\ \A u \in Started : runs'[u].phase = "starting"
  /\ (InvokeStep /\ stack'[Len(stack')].who = "job") =>
       LET u == stack'[Len(stack')].of IN
         u \in DOMAIN runs /\ runs[u].phase = "starting" /\ runs'[u].phase = "invoked"

\* C13, amended: when the work of a started job rejects or throws and the
\* queue is not destroyed, ERROR is emitted with the job's id; the finally
\* block removes the registry entry and frees the slot, and enters the
\* dispatch loop unless the queue is paused or destroyed; the work of a job
\* is invoked at most once
C13_ErrorFinishes ==
  [][/\ \A u \in Uids : (ErrorStep(u) /\ ~isDestroyed) => EmitsError(u)
     /\ (RunJobFinally /\ ~isDestroyed /\ ~isPaused) => stack' = Append(Rest, FPnj("enter"))
     /\ FinishedAndOnce]_vars

\* C13 witness: the promise of a job has rejected and runJob, resumed in its
\* own task, is emitting ERROR with the job's id
C13_Witness ==
  /\ Len(stack) = 2
  /\ stack[1].k = "runJob" /\ stack[1].pc = "finally"
  /\ stack[2].k = "emit" /\ stack[2].ev = "error"
  /\ stack[1].uid \in DOMAIN runs /\ stack[2].data = runs[stack[1].uid].id

\* C13 as stated: whenever the work of a started job rejects or throws, ERROR
\* is emitted with its id, and the finally block enters the dispatch loop
C13_Original ==
  [][/\ \A u \in Uids : ErrorStep(u) => EmitsError(u)
     /\ RunJobFinally => stack' = Append(Rest, FPnj("enter"))
     /\ FinishedAndOnce]_vars

\* the runs of the id whose work is invoked and not settled
RunningOf(id) == {u \in DOMAIN runs : runs[u].id = id /\ runs[u].phase = "invoked"}

\* what a step by abort(id) of a running job, or by the expiry of a timeout,
\* does, and when a step starts a job
CooperativeCancel ==
  /\ \A id \in Ids :
       (Abort(id) /\ RunningOf(id) # {}) =>
          /\ \A u \in RunningOf(id) : runs'[u] = [runs[u] EXCEPT !.aborted = TRUE]
          /\ UNCHANGED <<jobMap, running, queue>>
          /\ stack' = Base
  /\ \A u \in Uids :
       TimeoutFire(u) =>
          /\ runs'[u].aborted /\ runs'[u].phase = runs[u].phase
          /\ UNCHANGED <<jobMap, running, queue, stack>>
  /\ Started # {} => Cardinality(InFlight) < cfg.concurrency

\* C14 as stated: abort(id) of a running job and the expiry of its timeout only
\* abort its controller: the registry, the running counter and the queue stay
\* as they are and nothing is dispatched; a job is started only while the runs
\* in flight, the aborted ones among them, are fewer than concurrency
C14_CooperativeCancel == [][CooperativeCancel]_vars

\* C15: the entries repeated dequeue() returns after the enqueue() calls are in
\* non-increasing order of priority, and those of equal priority in the order
\* they were enqueued
C15_DequeueOrder ==
  \A i, j \in 1..Len(pqOut) :
    i < j =>
      /\ pqOut[i].priority >= pqOut[j].priority
      /\ pqOut[i].priority = pqOut[j].priority => pqOut[i].ser < pqOut[j].ser

\* C15 witness: the queue was drained and returned three entries, two of them
\* of one priority and one of another
C15_Witness ==
  /\ pq = <<>>
  /\ Len(pqOut) = 3
  /\ pqOut[1].priority > pqOut[3].priority
  /\ pqOut[1].priority = pqOut[2].priority \/ pqOut[2].priority = pqOut[3].priority

\* the sequence without its i-th element
RemoveAt(q, i) == SubSeq(q, 1, i - 1) \o SubSeq(q, i + 1, Len(q))

\* C16 as stated: dequeue() on a non-empty queue removes the selected entry
\* and no other: the other entries stay, in their order
C16_DequeueRemovesOne ==
  [][PQDequeueStep => pq' = RemoveAt(pq, PQScan(pq, 1, 0))]_vars

\* C17: on every queue peek() returns the value dequeue() would return, null
\* when the queue is empty, and leaves the backing queue as it was
C17_PeekPure ==
  /\ PQPeek(pq).queue = pq
  /\ PQPeek(pq).value = IF pq = <<>> THEN NullValue ELSE PQDequeue(pq).value

\* C17 witness: peek() has returned the value of an entry that is not at the
\* head of the queue, and the queue still holds all its entries
C17_Witness ==
  /\ Len(pq) = MaxEnqueues
  /\ pqPeeked # NullValue
  /\ pqPeeked # Head(pq).value
  /\ pqPeeked = PQHighest(pq).value

\* C18 as stated: an emission invokes only the listeners its event had when it
\* began: one registered during the emission is not invoked by it
C18_NoLateListener ==
  \A j \in 1..(Len(stack) - 1) :
    (stack[j].k = "emit" /\ stack[j + 1].k = "callback") => stack[j].i - 1 <= stack[j].n

\* C19 as stated: with autoStart on, the queue never destroyed, every pause
\* followed by a resume, every started job settling and the timer ticking,
\* every pending job is eventually started
C19_PendingEventuallyStarted ==
  \A u \in Uids : (u \in QueueUids(queue)) ~> (u \in DOMAIN runs)

\* the tasks of limit() in flight: invoked, their promise not settled
LimInFlight == {t \in 1..lim.tasks : lim.status[t] = "running"}

MlInFlight == {t \in 1..Len(ml.status) : ml.status[t] = "running"}

\* C21: the executor of makeLimit(c) has at most c functions in flight; the
\* functions are started in the order they were handed in, none twice; with
\* c = 1 a function is started only when the one handed in before it has
\* settled
C21_MakeLimit ==
  /\ Cardinality(MlInFlight) <= ml.concurrency
  /\ \A i \in 1..Len(ml.started) : ml.started[i] = i
  /\ \A t \in 1..Len(ml.status) : ml.status[t] # "queued" <=> t <= Len(ml.started)
  /\ ml.concurrency = 1 =>
       \A i \in 2..Len(ml.started) : ml.status[i - 1] \in {"settled", "done"}

\* C21 witness: c = 2, two functions in flight, the third waiting behind
\* them although the first two that were handed in have already finished
C21_Witness ==
  /\ ml.concurrency = 2
  /\ ml.status = <<"done", "running", "running", "queued">>

\* the cache holds for the key an entry that has not expired
Unexpired(key) ==
  \E i \in 1..Len(memo.cache) :
     /\ memo.cache[i].key = key
     /\ (memo.cache[i].expiry = 0 \/ memo.now < memo.cache[i].expiry)

\* the promise the cache holds for the key
CachedPromise(key) ==
  memo.cache[CHOOSE i \in 1..Len(memo.cache) : memo.cache[i].key = key].promise

\* a call of the memoized function with the key
MemoCalled(key) == memo'.calls = memo.calls + 1 /\ memo'.key = key

\* C22: with maxSize > 0, a call with a key for which the cache holds an
\* unexpired entry returns the promise of that entry and does not invoke the
\* underlying function, whether or not that promise has settled; the cache is
\* left as it was
C22_CachedNotInvoked ==
  [][\A key \in MemoKeys :
        (memo.maxSize > 0 /\ Unexpired(key) /\ MemoCalled(key))
          => /\ Len(memo'.status) = Len(memo.status)
             /\ memo'.ret = CachedPromise(key)
             /\ memo'.cache = memo.cache]_vars

\* C22 witness: three calls with one key, the first promise still pending:
\* one invocation, the third call answered with the first promise
C22_Witness ==
  /\ memo.maxSize > 0
  /\ memo.calls = 3
  /\ memo.pkey = <<"a">> /\ memo.status = <<"pending">>
  /\ memo.key = "a" /\ memo.ret = 1

\* C23: the cache never holds more than maxSize entries, and none when
\* maxSize <= 0
C23_CacheBound ==
  IF memo.maxSize > 0 THEN Len(memo.cache) <= memo.maxSize ELSE memo.cache = <<>>

\* the registry entries that hold a controller
Controllers == {x \in DOMAIN jobMap : jobMap[x].controller # NoId}

\* C24 as stated: between operations, running equals the number of registry
\* entries that hold a controller
C24_RunningIsControllers == Idle => running = Cardinality(Controllers)

\* C25 as stated: running is never negative, after destroy() included
C25_RunningNonNegative == running >= 0

\* C26 as stated: the id of every entry of the pending queue is in the
\* registry, in an entry without controller
C26_PendingRegistered ==
  \A i \in 1..Len(queue) :
     /\ queue[i].value.id \in DOMAIN jobMap
     /\ jobMap[queue[i].value.id].controller = NoId

\* the pending jobs whose signal of the caller is aborted
PendingAborted == {queue[i].value.uid : i \in {j \in 1..Len(queue) : queue[j].value.sig = 2}}

\* the dispatch loop extracts the pending job u, whose signal is aborted
Skips(u) ==
  /\ u \in PendingAborted
  /\ ProcessNextJobs
  /\ u \notin QueueUids(queue')

\* after the step, processNextJobs is emitting NEXT without an id and goes
\* back to the test of its loop when the emission returns
EmitsNextNoId ==
  /\ Len(stack') = Len(stack) + 1
  /\ stack'[Len(stack')].k = "emit"
  /\ stack'[Len(stack')].ev = "next"
  /\ stack'[Len(stack')].data = NoId
  /\ stack'[Len(stack')].i = 1
  /\ stack'[Len(stack') - 1] = FPnj("loop")

\* C27: a pending job whose signal of the caller is aborted when the dispatch
\* loop extracts it gets no run, so that its work is not invoked and neither
\* COMPLETED nor ERROR is emitted for it; NEXT is emitted without an id;
\* running, intervalCount and the starts of the window stay as they are; and
\* the loop, back at its test, extracts the next pending job when its
\* condition holds.  No job enters the queue again, and only a job of the
\* queue is started
C27_SkipAborted ==
  [][/\ \A u \in Uids :
          Skips(u) =>
             /\ u \notin DOMAIN runs'
             /\ runs' = runs
             /\ EmitsNextNoId
             /\ UNCHANGED <<running, intervalCount, windowStarts>>
     /\ Started \cap PendingAborted = {}
     /\ Started \subseteq QueueUids(queue)
     /\ QueueUids(queue') \ QueueUids(queue) \subseteq {nextUid + 1}
     /\ (ProcessNextJobs /\ Top.pc = "loop" /\ LoopCond) =>
          Len(queue') = Len(queue) - 1]_vars

\* C27 witness: under a rate window whose cap is not used up, the loop has
\* extracted a job whose signal is aborted and is emitting NEXT without an id;
\* another job is pending and a slot is free, so that the loop goes on
C27_Witness ==
  /\ Len(stack) >= 2
  /\ Top.k = "emit" /\ Top.ev = "next" /\ Top.data = NoId
  /\ stack[Len(stack) - 1] = FPnj("loop")
  /\ cfg.intervalCap # 0 /\ intervalCount < cfg.intervalCap
  /\ queue # <<>> /\ running < cfg.concurrency
  /\ ~isPaused /\ ~isDestroyed

\* C28 as stated: every registry entry without controller is the entry of a
\* job that waits in the pending queue, and the registry is empty once
\* nothing is pending and nothing is running
C28_RegistryOfPending ==
  /\ \A x \in DOMAIN jobMap : jobMap[x].controller = NoId => Found(queue, x)
  /\ (queue = <<>> /\ running = 0 /\ DOMAIN runs = {}) => DOMAIN jobMap = {}

\* C29 as stated: with autoStart off, no step starts a job as long as the
\* caller has called neither start() nor resume()
C29_NothingStartsBeforeStart == [][Started = {}]_vars

\* a step in which runJob of the started job u begins to emit COMPLETED or
\* ERROR with the job's id
TerminalStep(u) ==
  /\ u \in DOMAIN runs
  /\ stack' # stack
  /\ Len(stack') >= 2
  /\ stack'[Len(stack')].k = "emit"
  /\ stack'[Len(stack')].ev \in {"completed", "error"}
  /\ stack'[Len(stack')].data = runs[u].id
  /\ stack'[Len(stack')].i = 1
  /\ stack'[Len(stack') - 1] = FRunJob(u, "finally")

\* C30 as stated: the run of a started job emits COMPLETED or ERROR with the
\* job's id only once, and not one after the other; it does so before it
\* releases its slot; and a run that ends on a queue that is not destroyed has
\* emitted one of them
C30_OneTerminalEvent ==
  [][/\ \A u \in Uids :
          TerminalStep(u) =>
             /\ runs[u].phase \in {"starting", "invoked"}
             /\ u \in DOMAIN runs' /\ running' = running
     /\ (RunJobFinally /\ ~isDestroyed) => runs[Top.uid].phase = "settled"]_vars

\* C32 as stated: the catch callback of a rejected promise removes from the
\* cache the entry that holds that promise and no other
C32_RejectionRemovesOwnEntry ==
  [][\A p \in 1..MaxMemoCalls :
        MemoCatch(p) =>
           memo'.cache = SelectSeq(memo.cache, LAMBDA e : e.promise # p)]_vars

\* C31 as stated: an emission that has ended has invoked, once each, the
\* listeners that were registered when it began, also when a listener removed
\* itself, by off() or as a once() listener, while the emission ran; and a
\* once() listener is invoked in one emission at most
C31_EmissionInvokesAll ==
  /\ Idle => heard.invoked = heard.at
  /\ \A k \in 1..MaxOnces : heard.onceCalls[k] <= 1

====
